---- MODULE Spec2Model ----
(***************************************************************************)
(* Model of the graph construction of ansible-playbook-grapher:            *)
(* PlaybookParser.parse and PlaybookParser._include_tasks_in_blocks        *)
(* (src/ansibleplaybookgrapher/parser.py), BaseParser._add_task and the    *)
(* helpers of src/ansibleplaybookgrapher/utils.py.                         *)
(*                                                                         *)
(* The input is the tree Ansible hands to the parser: a playbook is a      *)
(* sequence of plays, a play has five block lists and a role list, a block *)
(* is explicit (Block.is_block(ds)) or implicit (the wrapper Ansible puts  *)
(* around a run of bare tasks), and the children of a block are tasks,     *)
(* nested explicit blocks, include_role and include_tasks elements.        *)
(* What the collaborators answer for an element (tag evaluation, loop,     *)
(* the content of an included file) is part of the input.                  *)
(***************************************************************************)
EXTENDS Integers, Sequences, FiniteSets, TLC

VARIABLES
    playbook,             \* Playbook.load(...).get_plays(): the input tree
    traits,               \* set of <<element, trait>>: collaborator answers that are not the default
    group_roles_by_name,  \* PlaybookParser.group_roles_by_name
    exclude_roles,        \* PlaybookParser.exclude_roles
    pc,                   \* where parse() stands
    cur,                  \* position of parse() in its loops over plays, sections, roles and blocks
    frames,               \* active loops of the nested _include_tasks_in_blocks calls
    parent_nodes,         \* the parent_nodes list of the running top-level call
    nodes,                \* the nodes built so far, in creation order
    edges,                \* the add_node calls made so far, in call order
    uuid,                 \* number of identifiers drawn from uuid4 so far
    warnings,             \* display.warning calls made so far
    evals,                \* evaluate_tags calls made so far
    error,                \* the exception that left parse(), if any
    hist,                 \* per include element: parent stack when it was met and when it was left
    call,                 \* the handle_include_path call that is followed on its own
    first,                \* the outcome of the first of two runs on the same playbook
    index                 \* node.index of every node, once calculate_indices has set it

vars == <<playbook, traits, group_roles_by_name, exclude_roles, pc, cur, frames,
          parent_nodes, nodes, edges, uuid, warnings, evals, error, hist, call, first, index>>

\* what the loops of parse() and the traversal leave as it is
inputs == <<playbook, traits, group_roles_by_name, exclude_roles, call, first, index>>

-----------------------------------------------------------------------------
(* Bounds of the model. *)

\* A run departs from the plain case (every tag evaluation passes, no loop, every included
\* file holds a list, no option set) in at most this many places.
MaxDeviations == 2

\* The longest _parent chain of the include task handed to handle_include_path.
MaxChain == 2

-----------------------------------------------------------------------------
(* Input terms. *)

Term(k, n, c, h) == [k |-> k, n |-> n, c |-> c, h |-> h]

\* ansible.playbook.task.Task / Handler
Task == Term("task", "", <<>>, <<>>)

\* the implicit meta task Ansible appends to a role (task.action == "meta" and task.implicit)
Meta == Term("meta", "", <<>>, <<>>)

\* an explicit block: Block.is_block(block.get_ds()) is true
Blk(c) == Term("block", "", c, <<>>)

\* the implicit Block that wraps a run of bare tasks
Imp(c) == Term("implicit", "", c, <<>>)

\* IncludeRole: c is the block list and h the handler list that get_block_list returns
IncRole(n, c, h) == Term("include_role", n, c, h)

\* TaskInclude that is not an IncludeRole: c is load_list_of_blocks of the file's content
IncTasks(c) == Term("include_tasks", "", c, <<>>)

Role(n, fi, t, h) == [name |-> n, from_include |-> fi, tasks |-> t, handlers |-> h]

Play(pre, roles, tasks, post, handlers) ==
    [pre_tasks |-> pre, roles |-> roles, tasks |-> tasks, post_tasks |-> post,
     handlers |-> handlers]

RoleNames == {"r1", "r2"}

\* One task in an implicit block.
OneTask == <<Imp(<<Task>>)>>

(* The playbooks the parser is run on. *)

\* two plays with every section filled; the role r1 occurs in both plays
PbSections ==
    << Play(OneTask, <<Role("r1", FALSE, OneTask, OneTask)>>, OneTask, OneTask, OneTask),
       Play(OneTask, <<Role("r1", FALSE, OneTask, <<>>)>>, <<>>, <<>>, OneTask) >>

\* nested and sibling explicit blocks at play level
PbBlocks ==
    << Play(<<>>, <<>>,
            << Blk(<<Blk(<<Blk(<<Task>>)>>), Task>>),
               Blk(<<Blk(<<Task>>), Blk(<<Task>>), Task>>),
               Imp(<<Task>>) >>,
            <<>>, <<>>) >>

\* file includes: inside a block, at play level, and one nested in the other's file
PbIncludeTasks ==
    << Play(<<Blk(<<IncTasks(<<Imp(<<Task, Task>>)>>), Task>>)>>, <<>>,
            << Imp(<<IncTasks(<<Imp(<<IncTasks(<<Imp(<<Task>>)>>), Task>>)>>), Task>>) >>,
            <<>>, <<>>) >>

\* role includes: at play level and inside a block, with blocks in the role's body;
\* Ansible has added the included roles to play.roles (from_include)
PbIncludeRole ==
    << Play(<<>>,
            << Role("r1", FALSE, OneTask, OneTask), Role("r1", TRUE, OneTask, OneTask) >>,
            << Imp(<<IncRole("r1", <<Imp(<<Task>>), Blk(<<Task>>)>>, OneTask), Task>>),
               Blk(<<IncRole("r2", <<Imp(<<Task>>)>>, <<>>), Task>>) >>,
            <<>>, <<>>) >>

\* a role whose tasks and handlers are nested in blocks and file includes
PbRole ==
    << Play(<<>>,
            << Role("r2", FALSE,
                    << Blk(<<Blk(<<Task>>), Task>>), Imp(<<Task, Meta>>) >>,
                    << Imp(<<Task, IncTasks(<<Imp(<<Task>>)>>)>>), Blk(<<Task>>) >>),
               Role("r2", FALSE, <<>>, <<>>) >>,
            <<>>, <<>>, OneTask) >>

Playbooks == {PbSections, PbBlocks, PbIncludeTasks, PbIncludeRole, PbRole}

-----------------------------------------------------------------------------
(* Elements of the input tree.  An element is named by its place:          *)
(* <<play, section, role>> followed by the indices that lead to it from    *)
(* the block list of that section; 0 steps into the handler list of an     *)
(* include_role.                                                           *)

Sections == {"pre_tasks", "role_tasks", "role_handlers", "tasks", "post_tasks", "handlers"}

TopBlocks(pbk, p, sec, r) ==
    CASE sec = "pre_tasks"     -> pbk[p].pre_tasks
      [] sec = "role_tasks"    -> pbk[p].roles[r].tasks
      [] sec = "role_handlers" -> pbk[p].roles[r].handlers
      [] sec = "tasks"         -> pbk[p].tasks
      [] sec = "post_tasks"    -> pbk[p].post_tasks
      [] sec = "handlers"      -> pbk[p].handlers

RECURSIVE Walk(_, _)
Walk(term, path) ==
    IF path = <<>> THEN term
    ELSE IF Head(path) = 0 THEN Walk(term.h[path[2]], Tail(Tail(path)))
    ELSE Walk(term.c[Head(path)], Tail(path))

\* the term of element e
At(pbk, e) ==
    Walk(TopBlocks(pbk, e[1], e[2], e[3])[e[4]], SubSeq(e, 5, Len(e)))

Kind(pbk, e) == At(pbk, e).k

RECURSIVE Sub(_, _)
Sub(term, e) ==
    {e} \cup UNION {Sub(term.c[i], e \o <<i>>) : i \in DOMAIN term.c}
        \cup UNION {Sub(term.h[j], e \o <<0, j>>) : j \in DOMAIN term.h}

Homes(pbk) ==
    {<<p, s, 0>> : p \in DOMAIN pbk, s \in {"pre_tasks", "tasks", "post_tasks", "handlers"}}
    \cup UNION {{<<p, s, r>> : s \in {"role_tasks", "role_handlers"}, r \in DOMAIN pbk[p].roles}
                : p \in DOMAIN pbk}

Elems(pbk) ==
    UNION {UNION {Sub(TopBlocks(pbk, h[1], h[2], h[3])[b], h \o <<b>>)
                  : b \in DOMAIN TopBlocks(pbk, h[1], h[2], h[3])} : h \in Homes(pbk)}

\* task_or_block._parent: the block (explicit or implicit) or the include that owns e;
\* a block at the top of a section has none (<<>>)
Parent(e) ==
    IF Len(e) <= 4 THEN <<>>
    ELSE IF e[Len(e) - 1] = 0 THEN SubSeq(e, 1, Len(e) - 2)
    ELSE SubSeq(e, 1, Len(e) - 1)

RECURSIVE Ancestors(_)
Ancestors(e) == IF Parent(e) = <<>> THEN {} ELSE {Parent(e)} \cup Ancestors(Parent(e))

\* the _role attribute of a block or task is set: the element was loaded as part of a role,
\* either in a role of the play or in the body of an include_role
\* (load_list_of_blocks(role=task_or_block._role) hands it on to included files)
HasRole(pbk, e) ==
    \/ e[2] \in {"role_tasks", "role_handlers"}
    \/ \E a \in Ancestors(e) : Kind(pbk, a) = "include_role"

RECURSIVE RoleInChain(_, _)
RoleInChain(pbk, parent) ==
    IF parent = <<>> THEN FALSE
    ELSE IF HasRole(pbk, parent) THEN TRUE
    ELSE RoleInChain(pbk, Parent(parent))

has_role_parent(pbk, e) == RoleInChain(pbk, Parent(e))

-----------------------------------------------------------------------------
(* What the collaborators answer for an element. *)

LoadFaults == {"undefined", "missing", "empty", "notlist", "notlist_nopos"}

TraitsOf(k) ==
    CASE k = "task"          -> {"rejected", "tagfail", "loop"}
      [] k = "block"         -> {"rejected"}
      [] k = "include_role"  -> {"rejected", "tagfail", "loop"}
      [] k = "include_tasks" -> {"rejected", "loop"} \cup LoadFaults
      [] OTHER               -> {}

TraitPairs(pbk) == UNION {{<<e, t>> : t \in TraitsOf(Kind(pbk, e))} : e \in Elems(pbk)}

RECURSIVE SubsetsUpTo(_, _)
SubsetsUpTo(P, n) ==
    IF n = 0 THEN {{}}
    ELSE LET S == SubsetsUpTo(P, n - 1) IN S \cup {s \cup {a} : s \in S, a \in P}

\* a file has one content
OneLoad(ts) == \A x \in ts, y \in ts : (x[1] = y[1] /\ x[2] \in LoadFaults /\ y[2] \in LoadFaults) => x = y

TraitSets(pbk, n) == {ts \in SubsetsUpTo(TraitPairs(pbk), n) : OneLoad(ts)}

Has(e, t) == <<e, t>> \in traits

\* task_or_block.loop
Loop(e) == Has(e, "loop")

\* an evaluation whose failure is taken for a rejection
evaluate_tags_swallowed(e) ==
    IF Has(e, "tagfail") \/ Has(e, "rejected") THEN "no" ELSE "yes"

\* task.evaluate_tags(only_tags, skip_tags, all_vars): "yes", "no", or "raise"
evaluate_tags(e) ==
    IF Has(e, "tagfail") THEN "raise" ELSE IF Has(e, "rejected") THEN "no" ELSE "yes"

\* handle_include_path followed by data_loader.load_from_file:
\*   "undefined"     handle_include_path raises AnsibleUndefinedVariable
\*   "missing"       load_from_file raises (no file at the resolved path)
\*   "empty"         load_from_file returns None
\*   "notlist"       the file holds a mapping or a string (an object that carries its position)
\*   "notlist_nopos" the file holds a plain scalar such as a number
\*   "list"          the file holds a list of tasks
LoadOutcome(e) ==
    IF \E o \in LoadFaults : Has(e, o) THEN CHOOSE o \in LoadFaults : Has(e, o) ELSE "list"

-----------------------------------------------------------------------------
(* The graph. *)

\* an identifier that does not depend on the uuid4 drawn
generate_id_fixed(prefix, k) == <<prefix, <<"uuid4", 0>>>>

\* utils.generate_id: the prefix and the first 8 characters of a fresh uuid4;
\* k numbers the draws, successive draws are taken to be distinct
generate_id(prefix, k) == <<prefix, <<"uuid4", k>>>>

\* a hash that is salted with the number of identifiers drawn so far
hash_value_salted(value) == <<"md5", <<value, uuid>>>>

\* utils.hash_value: the first 8 characters of the md5 of the value
hash_value(value) == <<"md5", value>>

Node(type, id, raw, nt) == [type |-> type, id |-> id, raw |-> raw, node_type |-> nt]

\* f"{node_type}s"
Plural(nt) ==
    CASE nt = "pre_task"  -> "pre_tasks"
      [] nt = "task"      -> "tasks"
      [] nt = "post_task" -> "post_tasks"
      [] nt = "handler"   -> "handlers"

\* the slot of the composite node that add_node(target_composition, node) appends to:
\* a block has the single slot tasks, a role has tasks and handlers, a play has its five slots
SlotOf(type, target) ==
    CASE type = "BlockNode" -> "tasks"
      [] type = "RoleNode"  -> IF target = "handlers" THEN "handlers" ELSE "tasks"
      [] OTHER              -> target

\* parent.add_node(target, child), recorded as the edge it creates
add_node(ns, parent, target, child) ==
    [parent |-> parent, slot |-> SlotOf(ns[parent].type, target), child |-> child]

\* the first parent of the list instead of the last
Bottom(st) == st[1]

Top(st) == st[Len(st)]

Pop(st) == SubSeq(st, 1, Len(st) - 1)

-----------------------------------------------------------------------------
(* parse(): the loops over the plays, the sections of a play, its roles and their blocks. *)

\* parse() with the tasks of the play handled before its roles
SectionOrderTasksFirst == <<"pre_tasks", "tasks", "roles", "post_tasks", "handlers">>

\* the order in which parse() goes through the sections of a play
SectionOrder == <<"pre_tasks", "roles", "tasks", "post_tasks", "handlers">>

\* for one role: role.compile(play), then role.get_handler_blocks(play)
RoleSubOrder == <<"tasks", "handlers">>

\* the section of the input tree the cursor c is in
CurSection(c) ==
    IF SectionOrder[c.s] = "roles"
    THEN (IF RoleSubOrder[c.u] = "tasks" THEN "role_tasks" ELSE "role_handlers")
    ELSE SectionOrder[c.s]

CurHome(c) == <<c.p, CurSection(c), IF SectionOrder[c.s] = "roles" THEN c.r ELSE 0>>

CurList(c) == TopBlocks(playbook, c.p, CurSection(c), c.r)

\* the node_type argument parse() passes for the section
NodeType(c) ==
    CASE CurSection(c) = "pre_tasks"     -> "pre_task"
      [] CurSection(c) = "role_tasks"    -> "task"
      [] CurSection(c) = "role_handlers" -> "handler"
      [] CurSection(c) = "tasks"         -> "task"
      [] CurSection(c) = "post_tasks"    -> "post_task"
      [] CurSection(c) = "handlers"      -> "handler"

\* the parent_nodes argument parse() passes for the section: [role_node] or [play_node]
Owner(c) == IF SectionOrder[c.s] = "roles" THEN c.role_node ELSE c.play_node

\* Where parse() stands next: at the next block of the current list, else at the next
\* list, role, section or play that its loops reach.  m is the loop to resume.
RECURSIVE Seek(_, _)
Seek(m, c) ==
    CASE m = "section" ->
            IF c.s > Len(SectionOrder)
            THEN [pc |-> "play", cur |-> [c EXCEPT !.p = c.p + 1, !.s = 1]]
            ELSE IF SectionOrder[c.s] = "roles"
            THEN Seek("roles", [c EXCEPT !.r = 1])
            ELSE Seek("blocks", [c EXCEPT !.r = 0, !.u = 1, !.b = 1])
      [] m = "roles" ->
            IF c.r <= Len(playbook[c.p].roles)
            THEN [pc |-> "roles", cur |-> c]
            ELSE Seek("section", [c EXCEPT !.s = c.s + 1, !.r = 0])
      [] m = "blocks" ->
            IF c.b <= Len(CurList(c))
            THEN [pc |-> "blocks", cur |-> c]
            ELSE IF SectionOrder[c.s] = "roles"
            THEN (IF c.u < Len(RoleSubOrder)
                  THEN Seek("blocks", [c EXCEPT !.u = c.u + 1, !.b = 1])
                  ELSE Seek("roles", [c EXCEPT !.r = c.r + 1, !.u = 1, !.b = 1]))
            ELSE Seek("section", [c EXCEPT !.s = c.s + 1, !.b = 1])

NoError == [type |-> "none", msg |-> "", obj |-> <<>>]

Cursor0 == [p |-> 1, s |-> 1, r |-> 0, u |-> 1, b |-> 1, play_node |-> 0, role_node |-> 0]

Init ==
    /\ playbook \in Playbooks
    /\ group_roles_by_name \in BOOLEAN
    /\ exclude_roles \in {{}, {"r1"}}
    /\ traits \in TraitSets(playbook, MaxDeviations - (IF group_roles_by_name THEN 1 ELSE 0)
                                                    - (IF exclude_roles = {} THEN 0 ELSE 1))
    /\ pc = "init"
    /\ cur = Cursor0
    /\ frames = <<>>
    /\ parent_nodes = <<>>
    /\ nodes = <<>>
    /\ edges = <<>>
    /\ uuid = 0
    /\ warnings = <<>>
    /\ evals = <<>>
    /\ error = NoError
    /\ hist = <<>>
    /\ call = [pc |-> "idle"]
    /\ first = [pc |-> "none"]
    /\ index = <<>>

\* parse(), lines 228-238: the playbook is loaded and the root node built
Parse ==
    /\ pc = "init"
    /\ nodes' = <<Node("PlaybookNode", generate_id("playbook_", uuid + 1), <<>>, "")>>
    /\ uuid' = uuid + 1
    /\ pc' = "play"
    /\ UNCHANGED <<inputs, cur, frames, parent_nodes, edges, warnings, evals, error, hist>>

\* parse(), lines 240-264: the next play gets its PlayNode under the root
ParsePlay ==
    /\ pc = "play"
    /\ cur.p <= Len(playbook)
    /\ LET n == Len(nodes) + 1
           ns == Append(nodes, Node("PlayNode", generate_id("play_", uuid + 1), <<cur.p>>, ""))
           to == Seek("section", [cur EXCEPT !.s = 1, !.play_node = n, !.role_node = 0])
       IN /\ nodes' = ns
          /\ edges' = Append(edges, add_node(ns, 1, "plays", n))
          /\ uuid' = uuid + 1
          /\ pc' = to.pc
          /\ cur' = to.cur
    /\ UNCHANGED <<inputs, frames, parent_nodes, warnings, evals, error, hist>>

\* no role is taken for excluded
in_exclude_roles_never(name) == FALSE

\* lines 287 and 436: the name of the role is in self.exclude_roles
in_exclude_roles(name) == name \in exclude_roles

\* parse(), lines 281-302: the next role of the play is skipped or gets its RoleNode
ParseRole ==
    /\ pc = "roles"
    /\ LET role == playbook[cur.p].roles[cur.r]
           n == Len(nodes) + 1
           id == IF group_roles_by_name
                 THEN <<"role_", hash_value(role.name)>>
                 ELSE generate_id("role_", uuid + 1)
           ns == Append(nodes, Node("RoleNode", id, <<cur.p, "roles", cur.r>>, ""))
       IN IF role.from_include \/ in_exclude_roles(role.name)
          THEN LET to == Seek("roles", [cur EXCEPT !.r = cur.r + 1])
               IN /\ pc' = to.pc
                  /\ cur' = to.cur
                  /\ UNCHANGED <<nodes, edges, uuid>>
          ELSE LET to == Seek("blocks", [cur EXCEPT !.u = 1, !.b = 1, !.role_node = n])
               IN /\ nodes' = ns
                  /\ edges' = Append(edges, add_node(ns, cur.play_node, "roles", n))
                  /\ uuid' = IF group_roles_by_name THEN uuid ELSE uuid + 1
                  /\ pc' = to.pc
                  /\ cur' = to.cur
    /\ UNCHANGED <<inputs, frames, parent_nodes, warnings, evals, error, hist>>

\* the slots a composite node declares, in the order of their declaration
Slots(type) ==
    CASE type = "PlaybookNode" -> <<"plays">>
      [] type = "PlayNode"     -> <<"pre_tasks", "roles", "tasks", "post_tasks", "handlers">>
      [] type = "RoleNode"     -> <<"tasks", "handlers">>
      [] type = "BlockNode"    -> <<"tasks">>
      [] OTHER                 -> <<>>

\* the children in slot s of node i, in the order of the add_node calls, from call k on
RECURSIVE ChildrenFrom(_, _, _, _)
ChildrenFrom(es, i, s, k) ==
    IF k > Len(es) THEN <<>>
    ELSE IF es[k].parent = i /\ es[k].slot = s
    THEN <<es[k].child>> \o ChildrenFrom(es, i, s, k + 1)
    ELSE ChildrenFrom(es, i, s, k + 1)

\* the pre-order walk from node i: the node, then slot after slot the walks from its children
RECURSIVE PreOrder(_, _, _)
RECURSIVE WalkChildren(_, _, _)
RECURSIVE WalkSlots(_, _, _, _)
PreOrder(ns, es, i) == <<i>> \o WalkSlots(ns, es, i, 1)

WalkChildren(ns, es, cs) ==
    IF cs = <<>> THEN <<>>
    ELSE PreOrder(ns, es, Head(cs)) \o WalkChildren(ns, es, Tail(cs))

WalkSlots(ns, es, i, k) ==
    IF k > Len(Slots(ns[i].type)) THEN <<>>
    ELSE WalkChildren(ns, es, ChildrenFrom(es, i, Slots(ns[i].type)[k], 1))
           \o WalkSlots(ns, es, i, k + 1)

\* playbook_root_node.calculate_indices(): every node met by the walk is given the number
\* of the visit, a later visit of the same node overwriting an earlier one
calculate_indices(ns, es) ==
    LET w == PreOrder(ns, es, 1)
    IN [i \in DOMAIN ns |->
          IF \E k \in DOMAIN w : w[k] = i
          THEN CHOOSE k \in DOMAIN w : w[k] = i /\ \A l \in DOMAIN w : w[l] = i => l <= k
          ELSE 0]

\* parse() returns the graph as the loops have left it
ParseReturnUnindexed ==
    /\ pc = "play"
    /\ cur.p > Len(playbook)
    /\ pc' = "done"
    /\ UNCHANGED <<inputs, cur, frames, parent_nodes, nodes, edges, uuid, warnings, evals,
                   error, hist>>

\* parse(), lines 370-371: no play is left, the indices are set and the graph is returned
ParseReturn ==
    /\ pc = "play"
    /\ cur.p > Len(playbook)
    /\ pc' = "done"
    /\ index' = calculate_indices(nodes, edges)
    /\ UNCHANGED <<playbook, traits, group_roles_by_name, exclude_roles, call, first, cur,
                   frames, parent_nodes, nodes, edges, uuid, warnings, evals, error, hist>>

-----------------------------------------------------------------------------
(* _add_task and _include_tasks_in_blocks. *)

\* f"{node_type}_"
Prefix(nt) ==
    CASE nt = "pre_task"  -> "pre_task_"
      [] nt = "task"      -> "task_"
      [] nt = "post_task" -> "post_task_"
      [] nt = "handler"   -> "handler_"

\* a handler that is attached to the play only when it has no role parent
AlsoInPlayInverted(nt, task) == nt = "handler" /\ ~has_role_parent(playbook, task)

\* every handler is attached to the play a second time
AlsoInPlayEveryHandler(nt, task) == nt = "handler"

\* lines 140-158: a handler with a role among its parents is also added to the play
AlsoInPlay(nt, task) == nt = "handler" /\ has_role_parent(playbook, task)

\* _add_task that evaluates the tags of tasks only: a handler is added unevaluated
add_task_handlers_unevaluated(task, nt, play_node, parent_node) ==
    LET n == Len(nodes) + 1
        type == IF nt = "handler" THEN "HandlerNode" ELSE "TaskNode"
        ns == Append(nodes, Node(type, generate_id(Prefix(nt), uuid + 1), task, nt))
        es == IF AlsoInPlay(nt, task)
              THEN Append(edges, add_node(ns, play_node, "handlers", n))
              ELSE edges
        same == [nodes |-> nodes, edges |-> edges, uuid |-> uuid, evals |-> evals,
                 raised |-> FALSE, ret |-> FALSE]
        added == [nodes |-> ns,
                  edges |-> Append(es, add_node(ns, parent_node, Plural(nt), n)),
                  uuid |-> uuid + 1, evals |-> evals, raised |-> FALSE, ret |-> TRUE]
    IN IF Kind(playbook, task) = "meta" THEN same
       ELSE IF nt = "handler" THEN added
       ELSE CASE evaluate_tags(task) = "raise" ->
                    [same EXCEPT !.evals = Append(evals, task), !.raised = TRUE]
              [] evaluate_tags(task) = "no" ->
                    [same EXCEPT !.evals = Append(evals, task)]
              [] evaluate_tags(task) = "yes" ->
                    [added EXCEPT !.evals = Append(evals, task)]

\* _add_task that adds the task although evaluate_tags returned false
add_task_unfiltered(task, nt, play_node, parent_node) ==
    LET n == Len(nodes) + 1
        type == IF nt = "handler" THEN "HandlerNode" ELSE "TaskNode"
        ns == Append(nodes, Node(type, generate_id(Prefix(nt), uuid + 1), task, nt))
        es == IF AlsoInPlay(nt, task)
              THEN Append(edges, add_node(ns, play_node, "handlers", n))
              ELSE edges
        same == [nodes |-> nodes, edges |-> edges, uuid |-> uuid, evals |-> evals,
                 raised |-> FALSE, ret |-> FALSE]
    IN IF Kind(playbook, task) = "meta" THEN same
       ELSE IF evaluate_tags(task) = "raise"
       THEN [same EXCEPT !.evals = Append(evals, task), !.raised = TRUE]
       ELSE [nodes |-> ns,
             edges |-> Append(es, add_node(ns, parent_node, Plural(nt), n)),
             uuid |-> uuid + 1, evals |-> Append(evals, task),
             raised |-> FALSE, ret |-> TRUE]

\* BaseParser._add_task(task, task_vars, node_type, play_node, parent_node): the nodes,
\* edges, evaluate_tags calls and uuid draws after the call, whether evaluate_tags raised,
\* and the value returned
add_task(task, nt, play_node, parent_node) ==
    LET n == Len(nodes) + 1
        type == IF nt = "handler" THEN "HandlerNode" ELSE "TaskNode"
        ns == Append(nodes, Node(type, generate_id(Prefix(nt), uuid + 1), task, nt))
        es == IF AlsoInPlay(nt, task)
              THEN Append(edges, add_node(ns, play_node, "handlers", n))
              ELSE edges
        same == [nodes |-> nodes, edges |-> edges, uuid |-> uuid, evals |-> evals,
                 raised |-> FALSE, ret |-> FALSE]
    IN IF Kind(playbook, task) = "meta" THEN same
       ELSE CASE evaluate_tags(task) = "raise" ->
                    [same EXCEPT !.evals = Append(evals, task), !.raised = TRUE]
              [] evaluate_tags(task) = "no" ->
                    [same EXCEPT !.evals = Append(evals, task)]
              [] evaluate_tags(task) = "yes" ->
                    [nodes |-> ns,
                     edges |-> Append(es, add_node(ns, parent_node, Plural(nt), n)),
                     uuid |-> uuid + 1, evals |-> Append(evals, task),
                     raised |-> FALSE, ret |-> TRUE]

\* an empty file is taken for an empty list of tasks
CheckDataEmptyAsList(outcome) ==
    CASE outcome \in {"notlist", "notlist_nopos"} -> "raise"
      [] outcome \in {"list", "empty"}             -> "expand"

\* lines 512-522: what is done with the data load_from_file returned
CheckData(outcome) ==
    CASE outcome = "empty"                       -> "skip"
      [] outcome \in {"notlist", "notlist_nopos"} -> "raise"
      [] outcome = "list"                        -> "expand"

\* the exception evaluate_tags raised on element e
TagError(e) == [type |-> "AnsibleError", msg |-> "evaluate_tags", obj |-> e]

\* included_file_path of the include element e
FilePath(e) == <<"file", e>>

\* the loop of the innermost running call
Frame == frames[Len(frames)]

\* the handler blocks of the role are walked after its task blocks
block_list_and_handlers(x) ==
    [i \in DOMAIN At(playbook, x).c |-> x \o <<i>>]
        \o [j \in DOMAIN At(playbook, x).h |-> x \o <<0, j>>]

\* what the loop of a call goes through: block.block for a block (line 404), and for an
\* include the block list that was loaded; of the two lists get_block_list returns for an
\* include_role only the first is kept (lines 477-481)
block_list(x) == [i \in DOMAIN At(playbook, x).c |-> x \o <<i>>]

HasNext(f) == f.i <= Len(block_list(f.e))

Child(f) == block_list(f.e)[f.i]

\* the loop of the innermost call moves to its next element
Bump(fs) == [fs EXCEPT ![Len(fs)].i = @ + 1]

Event(e, ev, st) == [e |-> e, ev |-> ev, stack |-> st, n |-> Len(nodes)]

\* lines 405-408
LoopWarning(x) == IF Loop(x) THEN <<[w |-> "loop", e |-> x]>> ELSE <<>>

\* _include_tasks_in_blocks(block = x, parent_nodes = st), lines 393-404: an explicit block
\* gets its BlockNode under the top of the stack and is pushed; the loop over block.block starts
EnterBlock(x, st, fs) ==
    LET n == Len(nodes) + 1
        nt == NodeType(cur)
        ns == Append(nodes, Node("BlockNode", generate_id("block_", uuid + 1), x, nt))
    IN /\ IF Kind(playbook, x) = "block"
          THEN /\ nodes' = ns
               /\ edges' = Append(edges, add_node(ns, Top(st), Plural(nt), n))
               /\ parent_nodes' = Append(st, n)
               /\ uuid' = uuid + 1
          ELSE /\ parent_nodes' = st
               /\ UNCHANGED <<nodes, edges, uuid>>
       /\ frames' = Append(fs, [e |-> x, i |-> 1, k |-> "block"])

\* parse(): the call of _include_tasks_in_blocks for the next block of the current section,
\* with a new parent_nodes list
ParseBlock ==
    /\ pc = "blocks"
    /\ EnterBlock(CurHome(cur) \o <<cur.b>>, <<Owner(cur)>>, <<>>)
    /\ pc' = "walk"
    /\ UNCHANGED <<inputs, cur, warnings, evals, error, hist>>

\* lines 410-418 and 534-544: the recursive call for a nested block, or for the next block
\* of an included list, on the same parent_nodes list
WalkBlock ==
    /\ pc = "walk"
    /\ HasNext(Frame)
    /\ Kind(playbook, Child(Frame)) \in {"block", "implicit"}
    /\ EnterBlock(Child(Frame), parent_nodes, Bump(frames))
    /\ UNCHANGED <<inputs, pc, cur, warnings, evals, error, hist>>

\* lines 548-569: a task; a stale parent is popped, then the task is added
WalkTask ==
    /\ pc = "walk"
    /\ HasNext(Frame)
    /\ Kind(playbook, Child(Frame)) \in {"task", "meta"}
    /\ LET x == Child(Frame)
           st == IF /\ Len(parent_nodes) > 1
                    /\ ~has_role_parent(playbook, x)
                    /\ nodes[Top(parent_nodes)].raw # Parent(x)
                 THEN Pop(parent_nodes)
                 ELSE parent_nodes
           r == add_task(x, NodeType(cur), cur.play_node, Top(st))
       IN /\ warnings' = warnings \o LoopWarning(x)
          /\ parent_nodes' = st
          /\ nodes' = r.nodes
          /\ edges' = r.edges
          /\ uuid' = r.uuid
          /\ evals' = r.evals
          /\ IF r.raised
             THEN /\ pc' = "error"
                  /\ error' = TagError(x)
                  /\ UNCHANGED frames
             ELSE /\ frames' = Bump(frames)
                  /\ UNCHANGED <<pc, error>>
    /\ UNCHANGED <<inputs, cur, hist>>

\* the body of a role include is left out when the roles are grouped by name
ExpandsBodyUngrouped(x) == ~Loop(x) /\ ~group_roles_by_name

\* lines 465-482: the body of a role include is expanded unless the include has a loop
ExpandsBody(x) == ~Loop(x)

\* lines 430-482: an include_role
WalkIncludeRole ==
    /\ pc = "walk"
    /\ HasNext(Frame)
    /\ Kind(playbook, Child(Frame)) = "include_role"
    /\ LET x == Child(Frame)
           name == At(playbook, x).n
           n == Len(nodes) + 1
           id == IF group_roles_by_name
                 THEN <<"role_", hash_value(name)>>
                 ELSE generate_id("role_", uuid + 1)
           ns == Append(nodes, Node("RoleNode", id, x, NodeType(cur)))
           es == Append(edges, add_node(ns, Top(parent_nodes), Plural(NodeType(cur)), n))
           met == Append(hist, Event(x, "enter", parent_nodes))
           skipped == Append(met, Event(x, "leave", parent_nodes))
       IN /\ warnings' = warnings \o LoopWarning(x)
          /\ IF in_exclude_roles(name)
             THEN /\ frames' = Bump(frames)
                  /\ hist' = skipped
                  /\ UNCHANGED <<pc, error, evals, nodes, edges, uuid, parent_nodes>>
             ELSE /\ evals' = Append(evals, x)
                  /\ CASE evaluate_tags(x) = "raise" ->
                            /\ pc' = "error"
                            /\ error' = TagError(x)
                            /\ hist' = met
                            /\ UNCHANGED <<frames, nodes, edges, uuid, parent_nodes>>
                       [] evaluate_tags(x) = "no" ->
                            /\ frames' = Bump(frames)
                            /\ hist' = skipped
                            /\ UNCHANGED <<pc, error, nodes, edges, uuid, parent_nodes>>
                       [] evaluate_tags(x) = "yes" ->
                            /\ nodes' = ns
                            /\ edges' = es
                            /\ uuid' = IF group_roles_by_name THEN uuid ELSE uuid + 1
                            /\ UNCHANGED <<pc, error>>
                            /\ IF ~ExpandsBody(x)
                               THEN /\ frames' = Bump(frames)
                                    /\ hist' = Append(met, [Event(x, "leave", parent_nodes)
                                                            EXCEPT !.n = n])
                                    /\ UNCHANGED parent_nodes
                               ELSE /\ parent_nodes' = Append(parent_nodes, n)
                                    /\ frames' = Append(Bump(frames),
                                                        [e |-> x, i |-> 1, k |-> "include"])
                                    /\ hist' = met
    /\ UNCHANGED <<inputs, cur>>

\* lines 484-532: an include_tasks
WalkIncludeTasks ==
    /\ pc = "walk"
    /\ HasNext(Frame)
    /\ Kind(playbook, Child(Frame)) = "include_tasks"
    /\ LET x == Child(Frame)
           r == add_task(x, NodeType(cur), cur.play_node, Top(parent_nodes))
           met == Append(hist, Event(x, "enter", parent_nodes))
           left == Append(met, Event(x, "leave", parent_nodes))
       IN CASE LoadOutcome(x) = "undefined" ->
                 /\ warnings' = warnings \o LoopWarning(x) \o <<[w |-> "undefined", e |-> x]>>
                 /\ nodes' = r.nodes
                 /\ edges' = r.edges
                 /\ uuid' = r.uuid
                 /\ evals' = r.evals
                 /\ IF r.raised
                    THEN /\ pc' = "error"
                         /\ error' = TagError(x)
                         /\ hist' = met
                         /\ UNCHANGED frames
                    ELSE /\ frames' = Bump(frames)
                         /\ hist' = Append(met, [Event(x, "leave", parent_nodes)
                                                 EXCEPT !.n = Len(r.nodes)])
                         /\ UNCHANGED <<pc, error>>
                 /\ UNCHANGED parent_nodes
            [] LoadOutcome(x) = "missing" ->
                 /\ warnings' = warnings \o LoopWarning(x)
                 /\ pc' = "error"
                 /\ error' = [type |-> "AnsibleFileNotFound", msg |-> "load_from_file",
                              obj |-> FilePath(x)]
                 /\ hist' = met
                 /\ UNCHANGED <<frames, nodes, edges, uuid, evals, parent_nodes>>
            [] LoadOutcome(x) \notin {"undefined", "missing"}
               /\ CheckData(LoadOutcome(x)) = "skip" ->
                 /\ warnings' = warnings \o LoopWarning(x)
                                  \o <<[w |-> "empty", e |-> x, path |-> FilePath(x)]>>
                 /\ frames' = Bump(frames)
                 /\ hist' = left
                 /\ UNCHANGED <<pc, error, nodes, edges, uuid, evals, parent_nodes>>
            [] LoadOutcome(x) \notin {"undefined", "missing"}
               /\ CheckData(LoadOutcome(x)) = "raise" ->
                 /\ warnings' = warnings \o LoopWarning(x)
                 /\ pc' = "error"
                 /\ error' = [type |-> "AnsibleParserError",
                              msg |-> "Included task files must contain a list of tasks",
                              obj |-> IF LoadOutcome(x) = "notlist"
                                      THEN [data |-> "notlist", pos |-> FilePath(x)]
                                      ELSE [data |-> "notlist", pos |-> <<>>]]
                 /\ hist' = met
                 /\ UNCHANGED <<frames, nodes, edges, uuid, evals, parent_nodes>>
            [] LoadOutcome(x) \notin {"undefined", "missing"}
               /\ CheckData(LoadOutcome(x)) = "expand" ->
                 /\ warnings' = warnings \o LoopWarning(x)
                 /\ frames' = Append(Bump(frames), [e |-> x, i |-> 1, k |-> "include"])
                 /\ hist' = met
                 /\ UNCHANGED <<pc, error, nodes, edges, uuid, evals, parent_nodes>>
    /\ UNCHANGED <<inputs, cur>>

\* the loop of the innermost call is over: the call returns; after the blocks of an
\* include_role the last parent is removed (lines 545-547); when the top-level call
\* returns, parse() goes on
WalkReturn ==
    /\ pc = "walk"
    /\ ~HasNext(Frame)
    /\ LET f == Frame
           fs == Pop(frames)
           st == IF /\ f.k = "include"
                    /\ Kind(playbook, f.e) = "include_role"
                    /\ Len(parent_nodes) > 1
                 THEN Pop(parent_nodes)
                 ELSE parent_nodes
           to == Seek("blocks", [cur EXCEPT !.b = cur.b + 1])
       IN /\ frames' = fs
          /\ parent_nodes' = st
          /\ hist' = IF f.k = "include" THEN Append(hist, Event(f.e, "leave", st)) ELSE hist
          /\ IF fs = <<>>
             THEN pc' = to.pc /\ cur' = to.cur
             ELSE UNCHANGED <<pc, cur>>
    /\ UNCHANGED <<inputs, nodes, edges, uuid, warnings, evals, error>>

Next ==
    \/ Parse
    \/ ParsePlay
    \/ ParseRole
    \/ ParseBlock
    \/ WalkBlock
    \/ WalkTask
    \/ WalkIncludeRole
    \/ WalkIncludeTasks
    \/ WalkReturn
    \/ ParseReturn

Spec == Init /\ [][Next]_vars

-----------------------------------------------------------------------------
(* Two runs on the same playbook with the same filters, as test_group_roles_by_name     *)
(* makes them: the first without group_roles_by_name, the second with it.              *)

\* the first run is over; its outcome is kept and parse() is called again with the option
Rerun ==
    /\ pc \in {"done", "error"}
    /\ first.pc = "none"
    /\ ~group_roles_by_name
    /\ first' = [pc |-> pc, nodes |-> nodes, edges |-> edges, warnings |-> warnings]
    /\ group_roles_by_name' = TRUE
    /\ pc' = "init"
    /\ cur' = Cursor0
    /\ frames' = <<>>
    /\ parent_nodes' = <<>>
    /\ nodes' = <<>>
    /\ edges' = <<>>
    /\ uuid' = 0
    /\ warnings' = <<>>
    /\ evals' = <<>>
    /\ error' = NoError
    /\ hist' = <<>>
    /\ index' = <<>>
    /\ UNCHANGED <<playbook, traits, exclude_roles, call>>

NextTwice ==
    \/ Next
    \/ Rerun

SpecTwice == Init /\ [][NextTwice]_vars

-----------------------------------------------------------------------------
(* utils.handle_include_path, followed on its own.                           *)
(* A path is a sequence of components; a path is absolute when it starts     *)
(* with "/"; None is the value of a variable that holds no path yet.         *)
(* The loader is Ansible's: path_dwim_relative(path, dirname, source) is     *)
(* taken to be path + dirname + source, path_dwim(source) the loader's       *)
(* basedir + source.                                                         *)

None == <<"None">>

isabs(path) == path # <<>> /\ path[1] = "/"

\* os.path.join(a, b)
join(a, b) == IF isabs(b) THEN b ELSE a \o b

\* loader.get_basedir()
get_basedir == <<"/", "playbooks">>

path_dwim(source) == join(get_basedir, source)

path_dwim_relative(path, dirname, source) == join(join(path, dirname), source)

\* the ancestors a task can have: a block, an include_tasks (with the directory of its
\* templated path, or a path whose templating fails), an include_role
Ancestor(k, dir) == [k |-> k, dir |-> dir]

AncestorsOfTask ==
    {Ancestor("block", <<>>), Ancestor("include_role", <<"/", "roles", "r2">>),
     Ancestor("include_fails", <<>>)}
    \cup {Ancestor("include", d) : d \in {<<>>, <<"sub">>, <<"/", "opt">>}}

RECURSIVE Chains(_)
Chains(n) ==
    IF n = 0 THEN {<<>>}
    ELSE LET C == Chains(n - 1) IN C \cup {Append(c, a) : c \in C, a \in AncestorsOfTask}

\* original_task._role._role_path, or None when the task is in no role
RolePaths == {None, <<"/", "roles", "r1">>}

\* templar.template(include_param)
include_target == <<"t.yml">>

\* lines 137-150 and 161-164: the directory the parent include contributes
parent_include_dir(parent) ==
    IF parent.k = "include_fails" THEN <<>> ELSE parent.dir

\* lines 166-169
NextCumulative(cumulative_path, dir) ==
    IF cumulative_path # None /\ ~isabs(cumulative_path)
    THEN join(dir, cumulative_path)
    ELSE dir

\* lines 171-202: the candidates built for one parent include
candidates(role_path, cumulative_path) ==
    IF role_path # None
    THEN << path_dwim_relative(role_path, <<"tasks">>, include_target),
            path_dwim_relative(join(join(role_path, <<"tasks">>), cumulative_path),
                               <<"tasks">>, include_target) >>
    ELSE << path_dwim_relative(get_basedir, cumulative_path, include_target) >>

\* an os.stat whose OSError is not caught
TryCandidatesUncaught(cs, files) ==
    [raised |-> cs[1] \notin files, file |-> cs[1]]

\* lines 188-195: the first candidate that os.stat finds, else the last one
TryCandidates(cs, files) ==
    [raised |-> FALSE,
     file |-> IF \E k \in DOMAIN cs : cs[k] \in files
              THEN cs[CHOOSE k \in DOMAIN cs : cs[k] \in files /\ \A l \in 1..(k - 1) : cs[l] \notin files]
              ELSE cs[Len(cs)]]

\* the default is built whatever the loop has left in include_file
NeedsDefaultAlways(include_file) == TRUE

\* line 209
NeedsDefault(include_file) == include_file = None

\* lines 210-218: the path built from the original task alone
DefaultPath(role_path) ==
    IF role_path # None
    THEN path_dwim_relative(role_path, <<"tasks">>, include_target)
    ELSE path_dwim(include_target)

\* every path the call can build for the chain
RECURSIVE AllCandidates(_, _, _)
AllCandidates(chain, role_path, cumulative_path) ==
    IF chain = <<>> THEN {DefaultPath(role_path)}
    ELSE IF chain[1].k = "block"
    THEN AllCandidates(Tail(chain), role_path, cumulative_path)
    ELSE LET c == NextCumulative(cumulative_path, parent_include_dir(chain[1]))
         IN {candidates(role_path, c)[k] : k \in DOMAIN candidates(role_path, c)}
              \cup AllCandidates(Tail(chain), role_path, c)

\* the calls for one chain and one role: the target is defined or not, and any of the
\* paths the call can build exists or not
CallsFor(ch, r) ==
    {[pc |-> "loop", chain |-> ch, role_path |-> r, undefined |-> u, files |-> fs,
      parent_include |-> 1, cumulative_path |-> None, include_file |-> None,
      tried |-> {}, warned |-> 0, error |-> "none"] :
        u \in BOOLEAN, fs \in SUBSET AllCandidates(ch, r, None)}

\* a task below an include_role is a task of a role
Calls ==
    UNION {CallsFor(ch, r) : ch \in Chains(MaxChain),
                             r \in {rp \in RolePaths : rp # None}}
    \cup UNION {CallsFor(ch, None) :
                 ch \in {c \in Chains(MaxChain) : \A k \in DOMAIN c : c[k].k # "include_role"}}

\* the variables of parse() and of the traversal
parse_vars == <<playbook, traits, group_roles_by_name, exclude_roles, pc, cur, frames,
                parent_nodes, nodes, edges, uuid, warnings, evals, error, hist, first, index>>

InitPath ==
    /\ playbook = <<>>
    /\ traits = {}
    /\ group_roles_by_name = FALSE
    /\ exclude_roles = {}
    /\ pc = "handle_include_path"
    /\ cur = Cursor0
    /\ frames = <<>>
    /\ parent_nodes = <<>>
    /\ nodes = <<>>
    /\ edges = <<>>
    /\ uuid = 0
    /\ warnings = <<>>
    /\ evals = <<>>
    /\ error = NoError
    /\ hist = <<>>
    /\ call \in Calls
    /\ first = [pc |-> "none"]
    /\ index = <<>>

\* lines 152-155: a parent that is no TaskInclude is stepped over
SkipParent ==
    /\ call.pc = "loop"
    /\ call.parent_include <= Len(call.chain)
    /\ call.chain[call.parent_include].k = "block"
    /\ call' = [call EXCEPT !.parent_include = @ + 1]
    /\ UNCHANGED parse_vars

\* lines 156-207: a parent include: its directory is added to the cumulative path, the
\* candidates are built and looked for; the loop ends when include_file exists
TryParent ==
    /\ call.pc = "loop"
    /\ call.parent_include <= Len(call.chain)
    /\ call.chain[call.parent_include].k # "block"
    /\ LET parent == call.chain[call.parent_include]
           c == NextCumulative(call.cumulative_path, parent_include_dir(parent))
           cs == candidates(call.role_path, c)
           r == IF call.role_path # None
                THEN TryCandidates(cs, call.files)
                ELSE [raised |-> FALSE, file |-> cs[1]]
           w == IF parent.k = "include_fails" THEN call.warned + 1 ELSE call.warned
           looked == IF call.role_path # None /\ cs[1] \in call.files
                     THEN {cs[1]}
                     ELSE {cs[k] : k \in DOMAIN cs}
       IN call' =
            IF call.undefined
            THEN [call EXCEPT !.pc = "raised", !.error = "AnsibleUndefinedVariable",
                              !.cumulative_path = c, !.warned = w]
            ELSE IF r.raised
            THEN [call EXCEPT !.pc = "raised", !.error = "OSError",
                              !.cumulative_path = c, !.warned = w]
            ELSE [call EXCEPT !.cumulative_path = c, !.warned = w,
                              !.include_file = r.file,
                              !.tried = @ \cup looked,
                              !.pc = IF r.file \in call.files THEN "break" ELSE "loop",
                              !.parent_include = IF r.file \in call.files THEN @ ELSE @ + 1]
    /\ UNCHANGED parse_vars

\* lines 209-220: after the loop the default is built if include_file is still None, and
\* include_file is returned
ReturnPath ==
    /\ \/ call.pc = "break"
       \/ call.pc = "loop" /\ call.parent_include > Len(call.chain)
    /\ call' =
         IF NeedsDefault(call.include_file)
         THEN IF call.undefined
              THEN [call EXCEPT !.pc = "raised", !.error = "AnsibleUndefinedVariable"]
              ELSE [call EXCEPT !.pc = "returned",
                                !.include_file = DefaultPath(call.role_path)]
         ELSE [call EXCEPT !.pc = "returned"]
    /\ UNCHANGED parse_vars

NextPath ==
    \/ SkipParent
    \/ TryParent
    \/ ReturnPath

SpecPath == InitPath /\ [][NextPath]_vars

-----------------------------------------------------------------------------
(* Notions the properties are stated with. *)

IsElem(raw) == Len(raw) >= 4

NodeIds == DOMAIN nodes

HasNode(e) == \E i \in NodeIds : nodes[i].raw = e

Evaluated(e) == \E k \in DOMAIN evals : evals[k] = e

\* the elements below e, handler lists of role includes included
Descendants(e) == {d \in Elems(playbook) : e \in Ancestors(d)}

\* the play a node belongs to
PlayOf(i) == nodes[i].raw[1]

\* place of a node's element in the order of section 4.5:
\* <<play, section, role, tasks or handlers of the role>>
SectionRank(sec) ==
    CASE sec = "pre_tasks"                                -> 1
      [] sec \in {"roles", "role_tasks", "role_handlers"} -> 2
      [] sec = "tasks"                                    -> 3
      [] sec = "post_tasks"                               -> 4
      [] sec = "handlers"                                 -> 5

SubRank(sec) == CASE sec = "role_tasks" -> 1 [] sec = "role_handlers" -> 2 [] OTHER -> 0

Place(i) ==
    LET raw == nodes[i].raw
    IN IF Len(raw) = 1 THEN <<raw[1], 0, 0, 0>>
       ELSE <<raw[1], SectionRank(raw[2]), raw[3], SubRank(raw[2])>>

RECURSIVE LexLeq(_, _)
LexLeq(a, b) ==
    IF a = <<>> THEN TRUE
    ELSE IF Head(a) # Head(b) THEN Head(a) < Head(b)
    ELSE LexLeq(Tail(a), Tail(b))

-----------------------------------------------------------------------------
(* C1: the nodes of a play are attached section by section, in the order pre-tasks, roles *)
(* (per role its tasks, then its handlers), tasks, post-tasks, play handlers, and every   *)
(* node of a play is attached before the first node of the next play: along the sequence  *)
(* of add_node calls the place of the attached element never goes back.                   *)
C1_SectionOrder ==
    \A a \in DOMAIN edges, b \in DOMAIN edges :
        a < b => LexLeq(Place(edges[a].child), Place(edges[b].child))

\* both plays are done, the first with a node in each of its six sections
C1_Witness ==
    /\ pc = "done"
    /\ Len(playbook) = 2
    /\ \A sec \in Sections : \E i \in NodeIds :
           IsElem(nodes[i].raw) /\ nodes[i].raw[1] = 1 /\ nodes[i].raw[2] = sec
    /\ \E i \in NodeIds : IsElem(nodes[i].raw) /\ nodes[i].raw[1] = 2

-----------------------------------------------------------------------------
(* Which elements the traversal reaches. *)

\* the role of the play that owns the section of e is skipped by parse() (lines 283-288)
RoleSkipped(e) ==
    /\ e[2] \in {"role_tasks", "role_handlers"}
    /\ LET role == playbook[e[1]].roles[e[3]]
       IN role.from_include \/ role.name \in exclude_roles

\* e lies in the handler list of an include_role
InIncludedHandlers(e) == \E k \in 5..Len(e) : e[k] = 0

\* the body of the include a is walked
Expanded(a) ==
    CASE Kind(playbook, a) = "include_role" ->
             /\ At(playbook, a).n \notin exclude_roles
             /\ evaluate_tags(a) = "yes"
             /\ ~Loop(a)
      [] Kind(playbook, a) = "include_tasks" -> LoadOutcome(a) = "list"
      [] OTHER -> TRUE

Reached(e) ==
    /\ ~RoleSkipped(e)
    /\ ~InIncludedHandlers(e)
    /\ \A a \in Ancestors(e) : Expanded(a)

\* the elements that are to have a node when parse() returns
Expected(e) ==
    /\ Reached(e)
    /\ CASE Kind(playbook, e) = "block"         -> TRUE
         [] Kind(playbook, e) = "task"          -> evaluate_tags(e) = "yes"
         [] Kind(playbook, e) = "include_role"  ->
                At(playbook, e).n \notin exclude_roles /\ evaluate_tags(e) = "yes"
         [] Kind(playbook, e) = "include_tasks" ->
                LoadOutcome(e) = "undefined" /\ evaluate_tags(e) = "yes"
         [] OTHER                               -> FALSE

\* a run whose only departures from the plain case are tag evaluations that return false
OnlyTagsRun ==
    /\ exclude_roles = {}
    /\ \A t \in traits : t[2] = "rejected"

-----------------------------------------------------------------------------
-----------------------------------------------------------------------------
-----------------------------------------------------------------------------
(* Role handlers. *)

EdgesTo(i) == {k \in DOMAIN edges : edges[k].child = i}

\* the node of the role of the play in whose section the element e lies
IsRoleNodeOf(j, e) == nodes[j].type = "RoleNode" /\ nodes[j].raw = <<e[1], "roles", e[3]>>

\* the RoleNode of the include_role to whose handler list e belongs
IncludingRole(e) ==
    LET k == CHOOSE k \in 5..Len(e) : e[k] = 0 IN SubSeq(e, 1, k - 1)

IsPlayNodeOf(j, e) == nodes[j].type = "PlayNode" /\ nodes[j].raw = <<e[1]>>

\* a handler declared inside a role: in the handler blocks of a role of the play, or in
\* the handler blocks of an included role
RoleHandler(e) ==
    /\ Kind(playbook, e) = "task"
    /\ \/ e[2] = "role_handlers" /\ ~playbook[e[1]].roles[e[3]].from_include
       \/ InIncludedHandlers(e) /\ Expanded(IncludingRole(e)) /\ Reached(IncludingRole(e))

-----------------------------------------------------------------------------
(* Identifiers. *)

\* the declared name of the role a RoleNode stands for
RoleName(i) ==
    IF Len(nodes[i].raw) = 3
    THEN playbook[nodes[i].raw[1]].roles[nodes[i].raw[3]].name
    ELSE At(playbook, nodes[i].raw).n

RoleNodes == {i \in NodeIds : nodes[i].type = "RoleNode"}

(* C5: two RoleNodes of roles with the same declared name, from a role list or from a     *)
(* role include, have the same identifier when group_roles_by_name is on and different    *)
(* identifiers when it is off.                                                            *)
C5_RoleIds ==
    \A i \in RoleNodes, j \in RoleNodes :
        (i # j /\ RoleName(i) = RoleName(j)) =>
            (group_roles_by_name <=> nodes[i].id = nodes[j].id)

\* a listed role and an included role of the same name both have their RoleNode, under
\* the grouping option
C5_Witness ==
    /\ group_roles_by_name
    /\ \E i \in RoleNodes, j \in RoleNodes :
          /\ Len(nodes[i].raw) = 3 /\ Len(nodes[j].raw) > 3
          /\ RoleName(i) = RoleName(j)
          /\ nodes[i].id = nodes[j].id

C7_AsStated ==
    \A i \in NodeIds : nodes[i].type # "PlaybookNode" => Cardinality(EdgesTo(i)) = 1

(* C7, amended: at every point the PlaybookNode has no parent; a HandlerNode with a role  *)
(* among its parents sits in two slots, the handlers slot of its play and one slot of     *)
(* its parent on the stack; every other node sits in exactly one slot of one parent.      *)
C7_OneParentButRoleHandlers ==
    \A i \in NodeIds :
        CASE nodes[i].type = "PlaybookNode" -> EdgesTo(i) = {}
          [] nodes[i].type = "HandlerNode" /\ has_role_parent(playbook, nodes[i].raw) ->
                /\ Cardinality(EdgesTo(i)) = 2
                /\ \E k \in EdgesTo(i), l \in EdgesTo(i) :
                      /\ edges[k].parent # edges[l].parent
                      /\ nodes[edges[k].parent].type = "PlayNode"
                      /\ edges[k].slot = "handlers"
          [] OTHER -> Cardinality(EdgesTo(i)) = 1

\* in the middle of the traversal: a role handler in two slots, and a play handler, a
\* block and a task in one slot each
C7_Witness ==
    /\ pc = "walk"
    /\ \E i \in NodeIds :
          /\ nodes[i].type = "HandlerNode" /\ has_role_parent(playbook, nodes[i].raw)
          /\ Cardinality(EdgesTo(i)) = 2
    /\ \E i \in NodeIds :
          /\ nodes[i].type = "HandlerNode" /\ ~has_role_parent(playbook, nodes[i].raw)
          /\ Cardinality(EdgesTo(i)) = 1
    /\ \E i \in NodeIds : nodes[i].type = "TaskNode" /\ Cardinality(EdgesTo(i)) = 1

-----------------------------------------------------------------------------
(* Failures of the loader and of the tag evaluation. *)

\* the file include x has been met by the traversal
Met(x) == \E k \in DOMAIN hist : hist[k].e = x /\ hist[k].ev = "enter"

FileIncludes == {x \in Elems(playbook) : Kind(playbook, x) = "include_tasks"}

\* the element after x in the list x is in
NextSibling(x) == SubSeq(x, 1, Len(x) - 1) \o <<x[Len(x)] + 1>>

(* C8 as stated: once the traversal has met a file include whose file holds something    *)
(* that is not a list, the run is aborted with an AnsibleParserError, and the error       *)
(* names the path of that file.                                                           *)
C8_AsStated ==
    \A x \in FileIncludes :
        (Met(x) /\ (Has(x, "notlist") \/ Has(x, "notlist_nopos"))) =>
            /\ pc = "error"
            /\ error.type = "AnsibleParserError"
            /\ error.obj.pos = FilePath(x)

C10_EmptyInclude ==
    [][(/\ pc = "walk"
        /\ HasNext(Frame)
        /\ Child(Frame) \in FileIncludes
        /\ Has(Child(Frame), "empty"))
       => (/\ nodes' = nodes
           /\ edges' = edges
           /\ warnings' = warnings \o LoopWarning(Child(Frame))
                            \o <<[w |-> "empty", e |-> Child(Frame),
                                  path |-> FilePath(Child(Frame))]>>
           /\ error' = error
           /\ pc' = pc
           /\ parent_nodes' = parent_nodes
           /\ frames' = [frames EXCEPT ![Len(frames)].i = @ + 1])]_vars

\* an empty file include was met and left with the same stack and the same nodes, the
\* warning is there, and the sibling after it has its node
C10_Witness ==
    \E x \in FileIncludes :
        /\ Has(x, "empty")
        /\ \E k \in DOMAIN hist :
              /\ k < Len(hist)
              /\ hist[k].e = x /\ hist[k].ev = "enter"
              /\ hist[k + 1].e = x /\ hist[k + 1].ev = "leave"
              /\ hist[k + 1].stack = hist[k].stack /\ hist[k + 1].n = hist[k].n
        /\ \E k \in DOMAIN warnings : warnings[k].w = "empty" /\ warnings[k].e = x
        /\ HasNode(NextSibling(x))
        /\ error = NoError

-----------------------------------------------------------------------------
(* File includes whose path cannot be resolved. *)

\* the type of the node _add_task builds in the section the traversal is in
LeafType == IF NodeType(cur) = "handler" THEN "HandlerNode" ELSE "TaskNode"

\* the traversal stands at a file include whose path holds an undefined variable
AtUndefinedInclude ==
    /\ pc = "walk"
    /\ HasNext(Frame)
    /\ Child(Frame) \in FileIncludes
    /\ Has(Child(Frame), "undefined")

(* C11: the step that meets a file include whose path holds an undefined variable does    *)
(* not abort the run: it emits the warning, leaves the parent stack as it is and moves    *)
(* to the next sibling; when the tag filter rejects the include nothing is added, and     *)
(* otherwise exactly one task node for the include itself is added, as the child of the   *)
(* parent on top of the stack.                                                            *)
C11_UndefinedFallback ==
    [][AtUndefinedInclude =>
         LET x == Child(Frame)
             n == Len(nodes) + 1
         IN /\ pc' = pc /\ error' = error
            /\ parent_nodes' = parent_nodes
            /\ frames' = [frames EXCEPT ![Len(frames)].i = @ + 1]
            /\ warnings' = warnings \o LoopWarning(x) \o <<[w |-> "undefined", e |-> x]>>
            /\ evals' = Append(evals, x)
            /\ IF Has(x, "rejected")
               THEN nodes' = nodes /\ edges' = edges
               ELSE /\ Len(nodes') = n /\ SubSeq(nodes', 1, Len(nodes)) = nodes
                    /\ nodes'[n].type = LeafType /\ nodes'[n].raw = x
                    /\ SubSeq(edges', 1, Len(edges)) = edges
                    /\ Len(edges') > Len(edges)
                    /\ edges'[Len(edges')].child = n
                    /\ edges'[Len(edges')].parent = parent_nodes[Len(parent_nodes)]
                    /\ \A k \in (Len(edges) + 1)..(Len(edges') - 1) :
                          /\ edges'[k].child = n
                          /\ nodes[edges'[k].parent].type = "PlayNode"
       ]_vars

\* an unresolved file include inside a block has its task node under the BlockNode, with
\* the warning, and the sibling after it has its node as well
C11_Witness ==
    \E x \in FileIncludes :
        /\ Has(x, "undefined")
        /\ \E i \in NodeIds :
              /\ nodes[i].raw = x /\ nodes[i].type = "TaskNode"
              /\ \E k \in EdgesTo(i) : nodes[edges[k].parent].type = "BlockNode"
        /\ \E k \in DOMAIN warnings : warnings[k].w = "undefined" /\ warnings[k].e = x
        /\ HasNode(NextSibling(x))
        /\ error = NoError

-----------------------------------------------------------------------------
(* Elements with a loop. *)

\* the nodes an element contributes: its own node and the nodes of the elements below it
Contributed(x) == {i \in NodeIds : nodes[i].raw = x \/ nodes[i].raw \in Descendants(x)}

\* x is reached and neither the tag filter nor the exclusion list drops it
PassesFilters(x) ==
    /\ Reached(x)
    /\ ~Has(x, "rejected") /\ ~Has(x, "tagfail")
    /\ Kind(playbook, x) = "include_role" => At(playbook, x).n \notin exclude_roles

LoopWarned(x) == Cardinality({k \in DOMAIN warnings : warnings[k] = [w |-> "loop", e |-> x]}) = 1

(* C12 as stated: when parse() returns, every task, role include and file include that    *)
(* carries a loop and passes the filters has contributed exactly one node, and the loop   *)
(* warning was emitted for it.                                                            *)
C12_AsStated ==
    pc = "done" =>
        \A x \in Elems(playbook) :
            (Loop(x) /\ PassesFilters(x)) =>
                Cardinality(Contributed(x)) = 1 /\ LoopWarned(x)

-----------------------------------------------------------------------------
(* handle_include_path. *)

IncludesIn(chain) == {k \in DOMAIN chain : chain[k].k # "block"}

\* none of the paths the call looked for exists
NothingFound == call.tried \cap call.files = {}

(* C13: handle_include_path raises only when the templating of the include's own target   *)
(* fails on an undefined variable; that no candidate exists never makes it raise, and     *)
(* whenever it returns, for every chain of ancestors, the path it returns is not empty.   *)
C13_NoRaiseWhenMissing ==
    /\ call.pc = "raised" => call.undefined /\ call.error = "AnsibleUndefinedVariable"
    /\ call.pc = "returned" => call.include_file # None /\ call.include_file # <<>>
    /\ (call.pc = "loop" /\ call.parent_include > Len(call.chain) /\ ~call.undefined) =>
          ENABLED ReturnPath

\* the call returned for a task in a role under two include ancestors, with no file at all
C13_Witness ==
    /\ call.pc = "returned"
    /\ call.files = {}
    /\ call.role_path # None
    /\ Cardinality(IncludesIn(call.chain)) = 2
    /\ Cardinality(call.tried) > 2

\* the cumulative path after every include ancestor of the chain has been passed
RECURSIVE CumulativeOver(_, _)
CumulativeOver(chain, cumulative_path) ==
    IF chain = <<>> THEN cumulative_path
    ELSE IF chain[1].k = "block" THEN CumulativeOver(Tail(chain), cumulative_path)
    ELSE CumulativeOver(Tail(chain),
                        NextCumulative(cumulative_path, parent_include_dir(chain[1])))

\* the last candidate built for the outermost include ancestor
LastCandidate(chain, role_path) ==
    LET cs == candidates(role_path, CumulativeOver(chain, None)) IN cs[Len(cs)]

-----------------------------------------------------------------------------
(* Grouping the roles by name. *)

\* a node without its identifier
Anonymous(node) == [type |-> node.type, raw |-> node.raw, node_type |-> node.node_type]

\* the identifier was drawn by generate_id
IsDrawn(id) == id[2][1] = "uuid4"

(* C15: a run with group_roles_by_name ends as the run without it on the same playbook    *)
(* and filters ended, and when both return a graph the two graphs have the same nodes in  *)
(* the same order, of the same types and for the same elements, and the same edges in     *)
(* the same slots; the identifiers have the same prefixes, those of the nodes that are    *)
(* no RoleNode are drawn in both runs, and those of the RoleNodes are drawn in the run    *)
(* without the option and hashes of the role name in the run with it.                     *)
C15_SameNodes ==
    (first.pc # "none" /\ pc \in {"done", "error"}) =>
        /\ pc = first.pc
        /\ pc = "done" =>
              /\ Len(nodes) = Len(first.nodes)
              /\ edges = first.edges
              /\ warnings = first.warnings
              /\ \A i \in NodeIds :
                    /\ Anonymous(nodes[i]) = Anonymous(first.nodes[i])
                    /\ nodes[i].id[1] = first.nodes[i].id[1]
                    /\ IsDrawn(first.nodes[i].id)
                    /\ IsDrawn(nodes[i].id) <=> nodes[i].type # "RoleNode"

\* both runs returned a graph with blocks and tasks, in which two RoleNodes have one
\* identifier in the second run and two in the first
C15_Witness ==
    /\ first.pc = "done" /\ pc = "done"
    /\ \E i \in RoleNodes, j \in RoleNodes :
          /\ i # j
          /\ nodes[i].id = nodes[j].id
          /\ first.nodes[i].id # first.nodes[j].id
          /\ \E k \in DOMAIN edges : edges[k].parent = j
    /\ \E i \in NodeIds : nodes[i].type = "BlockNode"

-----------------------------------------------------------------------------
(* Blocks whose tasks are all skipped. *)

\* the tasks and includes below the element b
LeavesBelow(b) ==
    {d \in Descendants(b) : Kind(playbook, d) \in {"task", "include_role", "include_tasks"}}

\* b is an explicit block that holds tasks only, and the tag filter rejects every one
AllTasksExcluded(b) ==
    /\ Kind(playbook, b) = "block"
    /\ LeavesBelow(b) # {}
    /\ \A d \in LeavesBelow(b) : Kind(playbook, d) = "task" /\ Has(d, "rejected")

(* C16 as stated: when parse() returns, the graph holds no BlockNode for an explicit      *)
(* block of which the tag filter rejects every task.                                      *)
C16_AsStated ==
    pc = "done" =>
        \A b \in Elems(playbook) : AllTasksExcluded(b) => ~HasNode(b)

-----------------------------------------------------------------------------
(* Indices. *)

\* how often the walk meets node i
Visits(w, i) == Cardinality({k \in DOMAIN w : w[k] = i})

RoleHandlerNode(i) ==
    nodes[i].type = "HandlerNode" /\ has_role_parent(playbook, nodes[i].raw)

(* C17 as stated: after parse() has returned every node has an index, and along the       *)
(* pre-order walk from the root a node met later has a larger index than a node met       *)
(* before it.                                                                             *)
C17_AsStated ==
    pc = "done" =>
        LET w == PreOrder(nodes, edges, 1)
        IN /\ DOMAIN index = DOMAIN nodes
           /\ \A i \in NodeIds : index[i] > 0
           /\ \A k \in DOMAIN w, l \in DOMAIN w : k < l => index[w[k]] < index[w[l]]

(* C17, amended: after parse() has returned every node has an index and the root has the  *)
(* smallest one; the walk meets every node once, except the handlers with a role among    *)
(* their parents, which it meets twice (under their parent on the stack and in the        *)
(* handlers slot of their play) and which bear the index of the second visit; a node met  *)
(* later has a larger index than a node met before it, unless the earlier node is such a  *)
(* handler at its first visit.                                                            *)
C17_IndicesByLastVisit ==
    pc = "done" =>
        LET w == PreOrder(nodes, edges, 1)
        IN /\ DOMAIN index = DOMAIN nodes
           /\ \A i \in NodeIds : index[i] > 0 /\ (i # 1 => index[1] < index[i])
           /\ \A i \in NodeIds : Visits(w, i) = IF RoleHandlerNode(i) THEN 2 ELSE 1
           /\ \A k \in DOMAIN w, l \in DOMAIN w :
                 k < l => \/ index[w[k]] < index[w[l]]
                          \/ RoleHandlerNode(w[k]) /\ \E m \in DOMAIN w : m >= l /\ w[m] = w[k]

\* parse() has returned a graph with blocks and tasks in which a role handler bears a
\* larger index than a node the walk meets after the handler's first visit
C17_Witness ==
    /\ pc = "done"
    /\ \E i \in NodeIds : nodes[i].type = "BlockNode" /\ index[i] > 1
    /\ LET w == PreOrder(nodes, edges, 1)
       IN \E k \in DOMAIN w, l \in DOMAIN w :
             /\ k < l
             /\ RoleHandlerNode(w[k])
             /\ nodes[w[l]].type = "TaskNode"
             /\ index[w[k]] > index[w[l]]

-----------------------------------------------------------------------------
(* Excluded roles. *)

\* the element lies in the task or handler blocks of a role of the role list that is excluded
InExcludedListedRole(e) ==
    /\ e[2] \in {"role_tasks", "role_handlers"}
    /\ playbook[e[1]].roles[e[3]].name \in exclude_roles

ExcludedIncludes ==
    {x \in Elems(playbook) :
        Kind(playbook, x) = "include_role" /\ At(playbook, x).n \in exclude_roles}

(* C18: no RoleNode stands for a role whose name is on the exclusion list; no element of   *)
(* the task and handler blocks of such a role of the role list is evaluated or gets a     *)
(* node; a role include of such a role is not evaluated, whatever its tag evaluation      *)
(* would return or raise, gets no node, has nothing below it evaluated or given a node,   *)
(* and is left with the parent stack and the graph as they were when it was met.          *)
C18_ExcludedRoles ==
    /\ \A i \in RoleNodes : RoleName(i) \notin exclude_roles
    /\ \A e \in Elems(playbook) : InExcludedListedRole(e) => ~HasNode(e) /\ ~Evaluated(e)
    /\ \A x \in ExcludedIncludes :
          /\ ~HasNode(x) /\ ~Evaluated(x)
          /\ error # TagError(x)
          /\ \A d \in Descendants(x) : ~HasNode(d) /\ ~Evaluated(d)
          /\ \A k \in DOMAIN hist :
                (hist[k].e = x /\ hist[k].ev = "enter") =>
                    /\ k < Len(hist)
                    /\ hist[k + 1] = [hist[k] EXCEPT !.ev = "leave"]

\* the run went over an excluded role of the role list and over a role include of the same
\* role whose tag evaluation would fail, and the sibling after the include has its node
C18_Witness ==
    /\ pc = "done"
    /\ \E e \in Elems(playbook) : InExcludedListedRole(e)
    /\ \E x \in ExcludedIncludes :
          /\ Has(x, "tagfail")
          /\ Met(x)
          /\ HasNode(NextSibling(x))

-----------------------------------------------------------------------------
(* The parent stack around a role include. *)

\* the role includes whose body is expanded
ExpandedRoleIncludes ==
    {x \in Elems(playbook) :
        /\ Kind(playbook, x) = "include_role"
        /\ At(playbook, x).n \notin exclude_roles
        /\ ~Has(x, "rejected") /\ ~Has(x, "tagfail") /\ ~Has(x, "loop")}

(* C19 as stated: when the expansion of a role include without a loop is over, the parent  *)
(* stack is the stack the include was met with.                                           *)
C19_AsStated ==
    \A x \in ExpandedRoleIncludes :
        \A k \in DOMAIN hist, l \in DOMAIN hist :
            (/\ hist[k].e = x /\ hist[k].ev = "enter"
             /\ hist[l].e = x /\ hist[l].ev = "leave") =>
                hist[l].stack = hist[k].stack

-----------------------------------------------------------------------------
(* Nesting of the graph against nesting of the input. *)

\* the nodes built for an element that an explicit block owns
OwnedByBlock ==
    {i \in NodeIds :
        /\ nodes[i].type \in {"BlockNode", "TaskNode", "HandlerNode"}
        /\ Parent(nodes[i].raw) # <<>>
        /\ Kind(playbook, Parent(nodes[i].raw)) = "block"}

\* the node i is a child of the BlockNode built for the block b
UnderBlockNodeOf(i, b) ==
    \E k \in DOMAIN edges :
        /\ edges[k].child = i
        /\ nodes[edges[k].parent].type = "BlockNode"
        /\ nodes[edges[k].parent].raw = b

(* C20 as stated: every BlockNode and leaf node built for an element that an explicit     *)
(* block owns is a child of the BlockNode built for that block.                           *)
C20_AsStated ==
    \A i \in OwnedByBlock : UnderBlockNodeOf(i, Parent(nodes[i].raw))

-----------------------------------------------------------------------------
(* The parent of what a file include brings in. *)

\* the tasks of the blocks of the file that x includes
LeavesOfFile(x) ==
    {l \in Elems(playbook) :
        /\ Len(l) = Len(x) + 2
        /\ SubSeq(l, 1, Len(x)) = x
        /\ l[Len(x) + 1] # 0
        /\ Kind(playbook, l) \in {"task", "meta"}}

\* the elements after x in the block that holds x
FollowersOf(x) ==
    {f \in Elems(playbook) :
        /\ Len(f) = Len(x)
        /\ SubSeq(f, 1, Len(x) - 1) = SubSeq(x, 1, Len(x) - 1)
        /\ f[Len(f)] > x[Len(x)]}

\* the node i is a child of the node p
ChildOf(i, p) == \E k \in DOMAIN edges : edges[k].parent = p /\ edges[k].child = i

(* C21 as stated: the nodes of the tasks of an included file, and the nodes of the        *)
(* elements that follow the include in its block, are children of the node that was on    *)
(* top of the parent stack when the include was met.                                      *)
C21_AsStated ==
    \A x \in FileIncludes :
        \A k \in DOMAIN hist :
            (hist[k].e = x /\ hist[k].ev = "enter") =>
                \A i \in NodeIds :
                    nodes[i].raw \in LeavesOfFile(x) \cup FollowersOf(x) =>
                        ChildOf(i, Top(hist[k].stack))

-----------------------------------------------------------------------------
(* What the expansion of a role include walks. *)

\* the tasks of the task blocks of the role that x includes which the traversal reaches
\* and the tag filter lets through
IncludedTasks(x) ==
    {e \in Descendants(x) :
        /\ Kind(playbook, e) = "task"
        /\ ~InIncludedHandlers(e)
        /\ Reached(e)
        /\ evaluate_tags(e) = "yes"}

\* the handlers of the role that x includes, whatever the tag filter says of them
IncludedHandlers(x) ==
    {e \in Descendants(x) :
        /\ Kind(playbook, e) = "task"
        /\ InIncludedHandlers(e)
        /\ IncludingRole(e) = x}

====
